---- MODULE Spec2Model ----
(***************************************************************************)
(* Model of pipelib.Pipeline (src/pipelib/pipelib.py): batch_generator,    *)
(* background_generator with its child process and pipe, Composed, and     *)
(* Pipeline.run in sequential and in parallel mode (pool.map workers and   *)
(* one multiprocessing.Process per output call).                           *)
(***************************************************************************)
EXTENDS Integers, Sequences, FiniteSets, TLC

\* ---- bounds of the model ------------------------------------------------
MaxLen == 3
MaxElem == 1
MaxBatchSize == 2
MaxProcs == 2
MaxLogEvery == 2
MaxChain == 3
MaxChainSrc == 2

\* ---- inputs -------------------------------------------------------------
Elems == 0..MaxElem
FuncIds == {"inc", "dbl", "chk"}

RECURSIVE SeqsUpTo(_, _)
SeqsUpTo(S, n) ==
    IF n = 0 THEN {<<>>}
    ELSE LET shorter == SeqsUpTo(S, n - 1)
         IN  shorter \cup {Append(s, x) : s \in {t \in shorter : Len(t) = n - 1}, x \in S}

Sources == SeqsUpTo(Elems, MaxLen)
ProcessorLists == SeqsUpTo(FuncIds, MaxProcs)
BatchSizes == 1..MaxBatchSize
LogIntervals == 1..MaxLogEvery
ChainSources == SeqsUpTo(Elems, MaxChainSrc)
ChainLists == SeqsUpTo(FuncIds, MaxChain)

VARIABLES
    source,        \* the elements the input generator will yield
    batch_size,    \* Pipeline(batch_size=...)
    parallel,      \* Pipeline(parallel=...)
    processors,    \* Pipeline(processors=...)
    logger,        \* Pipeline(logger=...): TRUE when a logger is given
    log_every_iter,\* Pipeline(log_every_iter=...)
    done,          \* self.done
    pc,            \* position of the caller inside run() ("idle": not in run)
    lastErr,       \* outcome of the last run() call that returned or raised
    pos,           \* next element of the source that batch_generator reads
    genDone,       \* batch_generator has returned
    yielded,       \* the batches batch_generator has yielded so far
    bgState,       \* frame of background_generator in the parent
    p2c,           \* pipe, parent to child (pull tokens)
    c2p,           \* pipe, child to parent (batches or StopIteration)
    childPc,       \* position of _bg_gen in the child process
    batch,         \* the batch bound by the for loop of run()
    arrived,       \* pool.map results in the order the workers delivered them
    res,           \* res of run()
    p_init,        \* p_init of run()
    p,             \* p of run(): index into tasks, 0 when unbound
    tasks,         \* every output Process started so far
    calls,         \* invocations of output_procedure, in the order they began
    sink,          \* what the output procedure has written
    outputRaised,  \* some invocation of output_procedure has raised
    xfFailed,      \* batches on which a transformation raised
    aborted,       \* some run() raised a transformation or output failure
    runIdx,        \* idx of the for loop of run(), -1 before the first batch
    poolCreated,   \* run() has created a multiprocessing.Pool
    received,      \* the batches background_generator has yielded so far
    logs,          \* progress messages written to the logger, oldest first
    logStart       \* Len(logs) when the current run() was entered

inputs == <<source, batch_size, parallel, processors, logger, log_every_iter>>
genVars == <<pos, genDone, yielded>>
bgVars == <<bgState, p2c, c2p, childPc, received>>
loopVars == <<batch, arrived, res, p_init, p, runIdx>>
outVars == <<tasks, calls, sink, outputRaised>>
ghostVars == <<xfFailed, aborted>>
logVars == <<logs, logStart>>
vars == <<source, batch_size, parallel, processors, done, pc, lastErr,
          pos, genDone, yielded, bgState, p2c, c2p, childPc,
          batch, arrived, res, p_init, p, tasks, calls, sink,
          outputRaised, xfFailed, aborted, logger, log_every_iter, runIdx,
          poolCreated, received, logs, logStart>>

NoBatch == [n |-> 0, items |-> <<>>]
StopIteration == "StopIteration"

\* ---- transformations and Composed ---------------------------------------
Ok(v) == [ok |-> TRUE, val |-> v]
Raise(v) == [ok |-> FALSE, val |-> v]

\* the transformations of the model: two arithmetic ones whose order of
\* application matters, and one that raises on odd arguments
CallFunc(f, x) ==
    CASE f = "inc" -> Ok(x + 1)
      [] f = "dbl" -> Ok(2 * x)
      [] f = "chk" -> IF x % 2 = 1 THEN Raise(x) ELSE Ok(x)

RECURSIVE ComposedReversed(_, _, _)
RECURSIVE ComposedFrom(_, _, _)
ComposedReversed(fs, i, r) ==
    IF i > Len(fs) \/ ~r.ok THEN r
    ELSE ComposedReversed(fs, i + 1, CallFunc(fs[Len(fs) + 1 - i], r.val))

\* for f in self.functions: arg = f(arg), an exception ending the loop
ComposedFrom(fs, i, r) ==
    IF i > Len(fs) \/ ~r.ok THEN r
    ELSE ComposedFrom(fs, i + 1, CallFunc(fs[i], r.val))

Composed(fs, arg) == ComposedFrom(fs, 1, Ok(arg))

\* ---- batch_generator ----------------------------------------------------
BreakAtBatchSizeMutant(idx, bs) == idx = bs

BreakAtBatchSize(idx, bs) == idx = bs - 1

\* the inner for loop: appends elements from position at, stops when the
\* source is exhausted or the break fires
RECURSIVE TakeLoop(_, _, _, _, _)
TakeLoop(src, at, idx, acc, bs) ==
    IF at > Len(src) THEN acc
    ELSE LET acc2 == Append(acc, src[at])
         IN  IF BreakAtBatchSize(idx, bs) THEN acc2
             ELSE TakeLoop(src, at + 1, idx + 1, acc2, bs)

\* one resumption of batch_generator: the batch it yields, <<>> when it returns
NextBatch(src, at, bs) == TakeLoop(src, at, 0, <<>>, bs)

\* ---- pool.map -----------------------------------------------------------
GatherArrivalOrder(n, arr) == [k \in 1..n |-> arr[k].r]

\* MapResult: results are stored by the index of the element
Gather(n, arr) ==
    [k \in 1..n |-> (CHOOSE a \in {arr[j] : j \in 1..Len(arr)} : a.i = k).r]

AllOk(rs) == \A k \in 1..Len(rs) : rs[k].ok
Vals(rs) == [k \in 1..Len(rs) |-> rs[k].val]

\* list(map(self.processor, batch))
SeqMap(fs, items) == [k \in 1..Len(items) |-> Composed(fs, items[k])]


Exited(t) == t.st \in {"ok", "err"}

\* ---- construction -------------------------------------------------------
\* the state after Pipeline.__init__: both generators are created but no
\* generator body has run yet, so no process and no pipe exists
\* the fields and locals of a Pipeline right after __init__
Constructed ==
    /\ done = FALSE
    /\ pc = "idle"
    /\ lastErr = "none"
    /\ pos = 1
    /\ genDone = FALSE
    /\ yielded = <<>>
    /\ bgState = IF parallel THEN "unstarted" ELSE "absent"
    /\ p2c = <<>>
    /\ c2p = <<>>
    /\ childPc = "unborn"
    /\ batch = NoBatch
    /\ arrived = <<>>
    /\ res = <<>>
    /\ p_init = FALSE
    /\ p = 0
    /\ tasks = <<>>
    /\ calls = <<>>
    /\ sink = <<>>
    /\ outputRaised = FALSE
    /\ xfFailed = {}
    /\ aborted = FALSE
    /\ runIdx = -1
    /\ poolCreated = FALSE
    /\ received = <<>>
    /\ logs = <<>>
    /\ logStart = 0

Init ==
    /\ source \in Sources
    /\ batch_size \in BatchSizes
    /\ parallel \in BOOLEAN
    /\ processors \in ProcessorLists
    /\ logger \in BOOLEAN
    /\ log_every_iter \in LogIntervals
    /\ Constructed

\* pipelines over chains of up to MaxChain transformations, batches of one
\* element, no logger
InitChain ==
    /\ source \in ChainSources
    /\ batch_size = 1
    /\ parallel \in BOOLEAN
    /\ processors \in ChainLists
    /\ logger = FALSE
    /\ log_every_iter = 1
    /\ Constructed

\* ---- run(): control flow of the loop body, parallel mode -----------------
NextPcJoinFirst(at, pi) ==
    CASE at = "recv" -> IF pi THEN "join" ELSE "map"
      [] at = "join" -> "map"
      [] at = "map" -> "log"
      [] at = "log" -> "launch"

\* where the loop goes from each point: the batch is mapped first, then the
\* previous output process is joined if there is one, then the progress
\* message, then the new output process
NextPc(at, pi) ==
    CASE at = "recv" -> "map"
      [] at = "map" -> IF pi THEN "join" ELSE "log"
      [] at = "join" -> "log"
      [] at = "log" -> "launch"

\* ---- run(): entry -------------------------------------------------------
AssertSkipped(d) == TRUE

\* assert not self.done
AssertNotDone(d) == ~d

\* a call of run() by the user of the pipeline: the assertion, then the
\* pool is created in either mode; p, p_init and idx are locals
Run ==
    /\ pc = "idle"
    /\ IF AssertNotDone(done)
       THEN /\ pc' = "next"
            /\ lastErr' = "none"
            /\ poolCreated' = TRUE
            /\ p_init' = FALSE
            /\ p' = 0
            /\ runIdx' = -1
            /\ logStart' = Len(logs)
       ELSE /\ lastErr' = "AssertionError"
            /\ UNCHANGED <<pc, poolCreated, p_init, p, runIdx, logStart>>
    /\ UNCHANGED <<inputs, logs, done, genVars, bgVars, batch, arrived, res,
                   outVars, ghostVars>>

\* ---- batch_generator, resumed by next() ---------------------------------
\* what a resumption produces from the current generator state
GenItems == IF genDone THEN <<>> ELSE NextBatch(source, pos, batch_size)

\* the effect of a resumption on the generator
GenAdvance ==
    /\ genDone' = (GenItems = <<>>)
    /\ pos' = pos + Len(GenItems)
    /\ yielded' = IF GenItems = <<>> THEN yielded ELSE Append(yielded, GenItems)

GenBatch == [n |-> Len(yielded), items |-> GenItems]

\* sequential mode: the for loop of run() resumes batch_generator directly
NextSeq ==
    /\ pc = "next"
    /\ ~parallel
    /\ GenAdvance
    /\ IF GenItems = <<>>
       THEN pc' = "exit" /\ UNCHANGED <<batch, runIdx>>
       ELSE pc' = "map" /\ batch' = GenBatch /\ runIdx' = runIdx + 1
    /\ UNCHANGED <<inputs, poolCreated, logVars, done, lastErr, bgVars, arrived,
                   res, p_init, p, outVars, ghostVars>>

\* ---- background_generator -----------------------------------------------
PullTokenDropped(q) == q

\* parent_conn.send(True)
PullToken(q) == Append(q, TRUE)

IsStopNever(x) == FALSE

\* x is StopIteration
IsStop(x) == x.kind = StopIteration

\* first next(): Pipe(), Process(...).start(), send(True), then the first
\* send(True) of the loop
BgFirst ==
    /\ pc = "next"
    /\ parallel
    /\ bgState = "unstarted"
    /\ p2c' = PullToken(PullToken(<<>>))
    /\ childPc' = "recv"
    /\ bgState' = "running"
    /\ pc' = "recv"
    /\ UNCHANGED <<inputs, poolCreated, logVars, done, lastErr, genVars, c2p,
                   received, loopVars, outVars, ghostVars>>

\* later next(): the generator resumes after its yield and sends a token
BgResume ==
    /\ pc = "next"
    /\ parallel
    /\ bgState = "suspended"
    /\ p2c' = PullToken(p2c)
    /\ bgState' = "running"
    /\ pc' = "recv"
    /\ UNCHANGED <<inputs, poolCreated, logVars, done, lastErr, genVars, c2p,
                   childPc, received, loopVars, outVars, ghostVars>>

\* next() on the generator after it has returned
BgExhausted ==
    /\ pc = "next"
    /\ parallel
    /\ bgState = "finished"
    /\ pc' = "exit"
    /\ UNCHANGED <<inputs, poolCreated, logVars, done, lastErr, genVars, bgVars,
                   loopVars, outVars, ghostVars>>

\* x = parent_conn.recv(); return on StopIteration, else yield x to the for
\* loop of run(), which binds idx and batch
BgRecv ==
    /\ pc = "recv"
    /\ c2p # <<>>
    /\ c2p' = Tail(c2p)
    /\ IF IsStop(Head(c2p))
       THEN /\ bgState' = "finished"
            /\ pc' = "exit"
            /\ UNCHANGED <<batch, runIdx, received>>
       ELSE /\ bgState' = "suspended"
            /\ pc' = NextPc("recv", p_init)
            /\ batch' = Head(c2p).b
            /\ runIdx' = runIdx + 1
            /\ received' = Append(received, Head(c2p).b.items)
    /\ UNCHANGED <<inputs, poolCreated, logVars, done, lastErr, genVars, p2c,
                   childPc, arrived, res, p_init, p, outVars, ghostVars>>

\* _bg_gen: while conn.recv()
ChildRecv ==
    /\ childPc = "recv"
    /\ p2c # <<>>
    /\ p2c' = Tail(p2c)
    /\ childPc' = IF Head(p2c) THEN "next" ELSE "exited"
    /\ UNCHANGED <<inputs, poolCreated, logVars, done, pc, lastErr, genVars,
                   bgState, c2p, received, loopVars, outVars, ghostVars>>

\* _bg_gen: conn.send(next(gen)), or conn.send(StopIteration) and return
ChildNext ==
    /\ childPc = "next"
    /\ GenAdvance
    /\ IF GenItems = <<>>
       THEN /\ c2p' = Append(c2p, [kind |-> StopIteration, b |-> NoBatch])
            /\ childPc' = "exited"
       ELSE /\ c2p' = Append(c2p, [kind |-> "batch", b |-> GenBatch])
            /\ childPc' = "recv"
    /\ UNCHANGED <<inputs, poolCreated, logVars, done, pc, lastErr, bgState, p2c,
                   received, loopVars, outVars, ghostVars>>


\* ---- run(): the transformations -----------------------------------------
\* a transformation raised while batch was being mapped: run() raises
RaiseTransformationFailure ==
    /\ lastErr' = "TransformationFailure"
    /\ pc' = "idle"
    /\ xfFailed' = xfFailed \cup {batch.n}
    /\ aborted' = TRUE
    /\ UNCHANGED res

\* res = list(map(self.processor, batch))
SeqMapStep ==
    /\ pc = "map"
    /\ ~parallel
    /\ IF AllOk(SeqMap(processors, batch.items))
       THEN /\ res' = Vals(SeqMap(processors, batch.items))
            /\ pc' = "emit"
            /\ UNCHANGED <<lastErr, ghostVars>>
       ELSE RaiseTransformationFailure
    /\ UNCHANGED <<inputs, poolCreated, logVars, done, genVars, bgVars, batch,
                   arrived, p_init, p, runIdx, outVars>>

\* pool.map: a pool worker applies self.processor to one element of the
\* batch and delivers the result; the workers finish in any order
PoolWorker ==
    /\ pc = "map"
    /\ parallel
    /\ \E i \in 1..Len(batch.items) :
         /\ \A j \in 1..Len(arrived) : arrived[j].i # i
         /\ arrived' = Append(arrived, [i |-> i, r |-> Composed(processors, batch.items[i])])
    /\ UNCHANGED <<inputs, poolCreated, logVars, done, pc, lastErr, genVars,
                   bgVars, batch, res, p_init, p, runIdx, outVars, ghostVars>>

\* pool.map returns, or raises, once every element has been delivered
PoolGather ==
    /\ pc = "map"
    /\ parallel
    /\ Len(arrived) = Len(batch.items)
    /\ arrived' = <<>>
    /\ IF AllOk(Gather(Len(batch.items), arrived))
       THEN /\ res' = Vals(Gather(Len(batch.items), arrived))
            /\ pc' = NextPc("map", p_init)
            /\ UNCHANGED <<lastErr, ghostVars>>
       ELSE RaiseTransformationFailure
    /\ UNCHANGED <<inputs, poolCreated, logVars, done, genVars, bgVars, batch,
                   p_init, p, runIdx, outVars>>

\* ---- run(): the output, parallel mode -----------------------------------
\* if p_init: p.join()
Join ==
    /\ pc = "join"
    /\ Exited(tasks[p])
    /\ pc' = NextPc("join", p_init)
    /\ UNCHANGED <<inputs, poolCreated, logVars, done, lastErr, genVars, bgVars,
                   loopVars, outVars, ghostVars>>

DueOffByOne(i, every) == (i + 1) % every = 0

\* idx % self.log_every_iter == 0
Due(i, every) == i % every = 0

\* if self.logger is not None: if idx % self.log_every_iter == 0: the
\* message 'Processed batch {idx+1}' is logged
LogStep ==
    /\ pc = "log"
    /\ logs' = IF logger /\ Due(runIdx, log_every_iter)
               THEN Append(logs, runIdx + 1)
               ELSE logs
    /\ pc' = NextPc("log", p_init)
    /\ UNCHANGED <<inputs, poolCreated, logStart, done, lastErr, genVars, bgVars,
                   loopVars, outVars, ghostVars>>

\* p = Process(target=self.output_procedure, args=(res,)); p.start()
Launch ==
    /\ pc = "launch"
    /\ tasks' = Append(tasks, [n |-> batch.n, res |-> res, st |-> "started"])
    /\ p' = Len(tasks) + 1
    /\ p_init' = TRUE
    /\ pc' = "next"
    /\ UNCHANGED <<inputs, poolCreated, logVars, done, lastErr, genVars, bgVars,
                   batch, arrived, res, runIdx, calls, sink, outputRaised,
                   ghostVars>>

SetSt(t, st) == [tasks EXCEPT ![t].st = st]

\* the output process begins to execute output_procedure(res)
TaskBegin ==
    /\ \E t \in 1..Len(tasks) :
         /\ tasks[t].st = "started"
         /\ tasks' = SetSt(t, "running")
         /\ calls' = Append(calls, [n |-> tasks[t].n, res |-> tasks[t].res])
    /\ UNCHANGED <<inputs, poolCreated, logVars, done, pc, lastErr, genVars, bgVars, loopVars, sink,
                   outputRaised, ghostVars>>

\* output_procedure returns in its process; the process exits with code 0
TaskReturn ==
    /\ \E t \in 1..Len(tasks) :
         /\ tasks[t].st = "running"
         /\ tasks' = SetSt(t, "ok")
         /\ sink' = sink \o tasks[t].res
    /\ UNCHANGED <<inputs, poolCreated, logVars, done, pc, lastErr, genVars, bgVars, loopVars, calls,
                   outputRaised, ghostVars>>

\* output_procedure raises in its process after it has written k elements;
\* the exception ends the process, the parent never looks at its exit code
TaskRaise ==
    /\ \E t \in 1..Len(tasks) :
         /\ tasks[t].st = "running"
         /\ tasks' = SetSt(t, "err")
         /\ \E k \in 0..(Len(tasks[t].res) - 1) :
              sink' = sink \o SubSeq(tasks[t].res, 1, k)
    /\ outputRaised' = TRUE
    /\ UNCHANGED <<inputs, poolCreated, logVars, done, pc, lastErr, genVars, bgVars, loopVars, calls,
                   ghostVars>>

\* ---- run(): the output, sequential mode ---------------------------------
\* self.output_procedure(res) is entered
EmitCall ==
    /\ pc = "emit"
    /\ calls' = Append(calls, [n |-> batch.n, res |-> res])
    /\ pc' = "emitting"
    /\ UNCHANGED <<inputs, poolCreated, logVars, done, lastErr, genVars, bgVars, loopVars, tasks,
                   sink, outputRaised, ghostVars>>

\* self.output_procedure(res) returns
EmitReturn ==
    /\ pc = "emitting"
    /\ sink' = sink \o res
    /\ pc' = "next"
    /\ UNCHANGED <<inputs, poolCreated, logVars, done, lastErr, genVars, bgVars, loopVars, tasks,
                   calls, outputRaised, ghostVars>>

\* self.output_procedure(res) raises after it has written k elements: the
\* exception leaves run()
EmitRaise ==
    /\ pc = "emitting"
    /\ \E k \in 0..(Len(res) - 1) : sink' = sink \o SubSeq(res, 1, k)
    /\ outputRaised' = TRUE
    /\ lastErr' = "OutputFailure"
    /\ aborted' = TRUE
    /\ pc' = "idle"
    /\ UNCHANGED <<inputs, poolCreated, logVars, done, genVars, bgVars, loopVars, tasks, calls,
                   xfFailed>>

\* ---- run(): after the loop ----------------------------------------------
\* sequential mode: self.done = True
FinishSeq ==
    /\ pc = "exit"
    /\ ~parallel
    /\ done' = TRUE
    /\ pc' = "idle"
    /\ UNCHANGED <<inputs, poolCreated, logVars, lastErr, genVars, bgVars, loopVars, outVars,
                   ghostVars>>

\* parallel mode, the loop body never ran: p.join() reads the unbound local p
FinalJoinUnbound ==
    /\ pc = "exit"
    /\ parallel
    /\ p = 0
    /\ lastErr' = "UnboundLocalError"
    /\ pc' = "idle"
    /\ UNCHANGED <<inputs, poolCreated, logVars, done, genVars, bgVars, loopVars, outVars, ghostVars>>

\* parallel mode: p.join(), then self.done = True
FinalJoin ==
    /\ pc = "exit"
    /\ parallel
    /\ p # 0
    /\ Exited(tasks[p])
    /\ done' = TRUE
    /\ pc' = "idle"
    /\ UNCHANGED <<inputs, poolCreated, logVars, lastErr, genVars, bgVars, loopVars, outVars,
                   ghostVars>>

Next ==
    \/ Run
    \/ NextSeq
    \/ BgFirst
    \/ BgResume
    \/ BgExhausted
    \/ BgRecv
    \/ ChildRecv
    \/ ChildNext
    \/ SeqMapStep
    \/ PoolWorker
    \/ PoolGather
    \/ Join
    \/ LogStep
    \/ Launch
    \/ TaskBegin
    \/ TaskReturn
    \/ TaskRaise
    \/ EmitCall
    \/ EmitReturn
    \/ EmitRaise
    \/ FinishSeq
    \/ FinalJoinUnbound
    \/ FinalJoin

Spec == Init /\ [][Next]_vars

\* every step but the caller's call of run(): the steps of the thread inside
\* run(), of the child of background_generator, of the pool workers and of
\* the output processes, all of which the operating system keeps scheduling
Step ==
    \/ NextSeq \/ BgFirst \/ BgResume \/ BgExhausted \/ BgRecv
    \/ ChildRecv \/ ChildNext
    \/ SeqMapStep \/ PoolWorker \/ PoolGather
    \/ Join \/ LogStep \/ Launch
    \/ TaskBegin \/ TaskReturn \/ TaskRaise
    \/ EmitCall \/ EmitReturn \/ EmitRaise
    \/ FinishSeq \/ FinalJoinUnbound \/ FinalJoin

FairSpec == Spec /\ WF_vars(Step)

SpecChain == InitChain /\ [][Next]_vars

TypeOK ==
    /\ pc \in {"idle", "next", "recv", "map", "join", "log", "launch", "emit",
               "emitting", "exit"}
    /\ lastErr \in {"none", "AssertionError", "TransformationFailure",
                    "OutputFailure", "UnboundLocalError"}
    /\ pos \in 1..(Len(source) + 1)
    /\ p \in 0..Len(tasks)


\* ---- reference results --------------------------------------------------
RECURSIVE Concat(_)
Concat(ss) == IF ss = <<>> THEN <<>> ELSE Head(ss) \o Concat(Tail(ss))

IsPrefix(a, b) == Len(a) <= Len(b) /\ SubSeq(b, 1, Len(a)) = a

\* no transformation of the chain raises on any element of the source
NonFailing == \A k \in 1..Len(source) : Composed(processors, source[k]).ok

\* the source with the chain applied to every element, in source order
TransformedSource == [k \in 1..Len(source) |-> Composed(processors, source[k]).val]

\* run() with parallel = False and an output procedure that returns: the
\* calls of output_procedure made by the loop, batch after batch
RECURSIVE SeqRunFrom(_, _, _)
SeqRunFrom(at, n, acc) ==
    LET b == NextBatch(source, at, batch_size)
    IN  IF b = <<>> \/ ~AllOk(SeqMap(processors, b)) THEN acc
        ELSE SeqRunFrom(at + Len(b), n + 1,
                        Append(acc, [n |-> n, res |-> Vals(SeqMap(processors, b))]))

SeqCalls == SeqRunFrom(1, 0, <<>>)

\* fs[0], then fs[1], ..., then the last function, by induction on the list:
\* the last function applied to what the functions before it return
RECURSIVE ApplyInOrder(_, _)
ApplyInOrder(fs, x) ==
    IF fs = <<>> THEN Ok(x)
    ELSE LET r == ApplyInOrder(SubSeq(fs, 1, Len(fs) - 1), x)
         IN  IF r.ok THEN CallFunc(fs[Len(fs)], r.val) ELSE r

\* the positions of run() at which res holds the results of batch
ResIsOfBatch == pc \in {"join", "log", "launch", "emit", "emitting"}

\* pull tokens the parent has sent that _bg_gen has not yet answered with a
\* batch or with StopIteration: those still in the pipe, and the one the
\* child has received and is computing the reply to
PullsOutstanding == Len(p2c) + (IF childPc = "next" THEN 1 ELSE 0)

\* the messages logged by the current call of run()
RunLogs == SubSeq(logs, logStart + 1, Len(logs))

\* idx of the last batch of the current run() whose iteration has passed
\* the logging statement of lines 96-98
LoggedThrough ==
    IF pc \in {"map", "join", "log"}
       \/ (pc = "idle" /\ lastErr = "TransformationFailure")
    THEN runIdx - 1
    ELSE runIdx

\* parent_conn.recv() and conn.recv() both blocked: the parent waits for a
\* reply that is not in the pipe and that the child is not computing, and
\* the child, if it has not returned, waits for a token that is not there
BothBlocked ==
    /\ parallel
    /\ pc = "recv"
    /\ c2p = <<>>
    /\ childPc # "next"
    /\ p2c = <<>> \/ childPc # "recv"

\* the results of the batches before the first batch on which a
\* transformation raises, in order
ResultsBeforeFailure == Concat([k \in 1..Len(SeqCalls) |-> SeqCalls[k].res])

\* batch_generator(source, batch_size) run on its own to the end
RECURSIVE BatchesFrom(_, _)
BatchesFrom(at, acc) ==
    LET b == NextBatch(source, at, batch_size)
    IN  IF b = <<>> THEN acc ELSE BatchesFrom(at + Len(b), Append(acc, b))

AllBatches == BatchesFrom(1, <<>>)

\* invocations of the output procedure that have begun and not yet ended
ActiveOutputs ==
    Cardinality({t \in 1..Len(tasks) : tasks[t].st = "running"})
    + (IF pc = "emitting" THEN 1 ELSE 0)

\* ---- claims -------------------------------------------------------------

\* C1: with transformations that never raise and an output procedure that
\* never raises, the calls of the output procedure made by a run (contents,
\* order and batch boundaries) are at every moment a prefix of the calls of
\* the sequential loop, and equal to them when the run has ended, in parallel
\* mode under every schedule of the child, the pool workers and the output
\* processes, as in sequential mode.
C1_ParallelEqualsSequential ==
    (NonFailing /\ ~outputRaised) =>
        /\ IsPrefix(calls, SeqCalls)
        /\ (done \/ lastErr = "UnboundLocalError") => calls = SeqCalls

C1_Witness ==
    /\ parallel
    /\ done
    /\ ~outputRaised
    /\ Len(calls) >= 2
    /\ \E i \in 1..Len(calls) :
         /\ Len(calls[i].res) >= 2
         /\ calls[i].res[1] # calls[i].res[2]
         /\ calls[i].res # yielded[i]

\* C2: the output procedure is invoked once per batch in emission order (the
\* i-th invocation is for batch i-1, none skipped, none repeated), an
\* invocation begins only when the one before it has ended, and at Done what
\* has been written is the transformed source in source order.
C2_OutputInBatchOrder ==
    /\ \A i \in 1..Len(calls) : calls[i].n = i - 1
    /\ ActiveOutputs <= 1
    /\ done => (NonFailing /\ sink = TransformedSource)

\* C3: in parallel mode at most one invocation of the output procedure is
\* active in any reachable state.
C3_OneOutputActive ==
    parallel => Cardinality({t \in 1..Len(tasks) : tasks[t].st = "running"}) <= 1

\* C4: the batches yielded by batch_generator, concatenated, are the part of
\* the source read so far and the whole source once the generator has
\* returned; no batch is empty, none is longer than batch_size and all but
\* the last have exactly batch_size elements.
C4_BatchesPartitionSource ==
    /\ Concat(yielded) = SubSeq(source, 1, pos - 1)
    /\ genDone => Concat(yielded) = source
    /\ \A k \in 1..Len(yielded) :
         /\ Len(yielded[k]) >= 1
         /\ Len(yielded[k]) <= batch_size
         /\ k < Len(yielded) => Len(yielded[k]) = batch_size

C4_Witness ==
    /\ genDone
    /\ Len(yielded) >= 2
    /\ Len(source) = Len(yielded) * batch_size

\* C5: with an empty source no batch is yielded, the output procedure is
\* never invoked and run() raises nothing (a run() after Done apart).
C5_EmptySourceNoError ==
    source = <<>> =>
        /\ yielded = <<>>
        /\ calls = <<>>
        /\ lastErr \in {"none", "AssertionError"}
        /\ lastErr = "AssertionError" => done

\* C6: once done is set it stays set, and a later run() raises the assertion
\* error without leaving the entry of run(): it pulls no batch, sends no pull
\* token, maps nothing, starts no output process and makes no output call.
C6_SecondRunFails ==
    [][done =>
         /\ done'
         /\ pc' = "idle"
         /\ (lastErr' # lastErr => lastErr' = "AssertionError")
         /\ UNCHANGED <<genVars, p2c, batch, arrived, res>>
         /\ Len(tasks') = Len(tasks)
         /\ (~parallel => calls' = calls)]_vars

C6_Witness == done /\ lastErr = "AssertionError" /\ Len(calls) >= 1


\* C7: once a transformation has raised on batch N, the output procedure is
\* not invoked with batch N nor with a later batch, and done is not set.
C7_FailedBatchNotOutput ==
    \A n \in xfFailed :
        /\ \A i \in 1..Len(calls) : calls[i].n < n
        /\ ~done

\* C8: in parallel mode an output process that has raised is the last one
\* started (the join that follows it rethrows, nothing is launched after it)
\* and done is not set.
C8_OutputFailureRethrown ==
    parallel =>
        \A t \in 1..Len(tasks) :
            tasks[t].st = "err" => (t = Len(tasks) /\ ~done)

\* C9: after a run() has raised a transformation or output failure, the
\* pipeline never leaves the entry of run() again and done stays unset: the
\* only thing a later run() does is fail.
C9_FailedRunNotResumable ==
    aborted =>
        /\ pc = "idle"
        /\ ~done
        /\ lastErr \in {"TransformationFailure", "OutputFailure", "AssertionError"}

\* C10: in parallel mode, at Done every output process that was started has
\* run its output call to the end, and the sink holds the results of all
\* batches.
C10_DoneOutputsComplete ==
    (parallel /\ done) =>
        /\ \A t \in 1..Len(tasks) : tasks[t].st = "ok"
        /\ NonFailing
        /\ sink = TransformedSource

\* C11: the batches background_generator yields are at every moment a prefix
\* of the batches batch_generator yields on its own for the same source and
\* batch size, and are all of them, in the same order, once
\* background_generator has returned, which it does only after the
\* underlying generator has returned.
C11_PrefetchSameBatches ==
    parallel =>
        /\ IsPrefix(received, AllBatches)
        /\ bgState = "finished" => (genDone /\ received = AllBatches)

C11_Witness ==
    /\ parallel
    /\ bgState = "finished"
    /\ Len(received) >= 2
    /\ Len(source) = batch_size + 1

\* C12: every result self.processor delivers for an element x of the batch,
\* in the pool and in the sequential map, is what applying the functions of
\* the list to x in list order gives (for three functions f3(f2(f1(x)))),
\* and is x itself for the empty list.
C12_ComposedAppliesInListOrder ==
    /\ \A j \in 1..Len(arrived) :
         arrived[j].r = ApplyInOrder(processors, batch.items[arrived[j].i])
    /\ ResIsOfBatch =>
         /\ Len(res) = Len(batch.items)
         /\ \A k \in 1..Len(res) :
              /\ ApplyInOrder(processors, batch.items[k]) = Ok(res[k])
              /\ Len(processors) = 3 =>
                   CallFunc(processors[3],
                     CallFunc(processors[2],
                       CallFunc(processors[1], batch.items[k]).val).val) = Ok(res[k])
              /\ processors = <<>> => res[k] = batch.items[k]

C12_Witness ==
    /\ processors = <<"inc", "inc", "dbl">>
    /\ ResIsOfBatch
    /\ res = <<2 * (batch.items[1] + 2)>>
    /\ res # <<2 * batch.items[1] + 2>>

\* C13: in parallel mode at most one pull token is unanswered at any time.
C13_OneOutstandingPull ==
    parallel => PullsOutstanding <= 1

\* C14: in parallel mode, once run() has raised and returned to the caller,
\* the child process of background_generator takes no further batch from
\* the source, and the only step it still takes is to exit.
C14_NoPullAfterAbort ==
    [][(parallel /\ aborted /\ pc = "idle") =>
          /\ pos' = pos
          /\ childPc' # childPc => childPc' = "exited"]_vars

\* C15: in parallel mode, whenever done is set the child process of
\* background_generator has exited and the pipe holds neither a pull token
\* nor a reply.
C15_DonePrefetchReleased ==
    (parallel /\ done) =>
        /\ childPc = "exited"
        /\ p2c = <<>>
        /\ c2p = <<>>

\* C16: in parallel mode run() waits for the output process of batch N-1
\* only after pool.map has returned the results of batch N: at the join, res
\* already holds the transformed batch N and p is the output process of the
\* batch before it. (The state with three stages active is C16_Witness.)
C16_JoinAfterCompute ==
    (parallel /\ pc = "join") =>
        /\ p_init
        /\ arrived = <<>>
        /\ AllOk(SeqMap(processors, batch.items))
        /\ res = Vals(SeqMap(processors, batch.items))
        /\ tasks[p].n = batch.n - 1

\* the child is fetching batch N+1, the pool is part way through batch N and
\* the output process of batch N-1 is inside output_procedure
C16_Witness ==
    /\ parallel
    /\ ~aborted
    /\ pc = "map"
    /\ Len(arrived) < Len(batch.items)
    /\ childPc = "next"
    /\ GenItems # <<>>
    /\ Len(yielded) = batch.n + 1
    /\ p_init
    /\ tasks[p].st = "running"
    /\ tasks[p].n = batch.n - 1

\* C17: in parallel mode with a logger, the messages of the current run()
\* are exactly 'Processed batch 1', 'Processed batch 1 + log_every_iter',
\* 'Processed batch 1 + 2 * log_every_iter', ... up to the last batch of the
\* run that has passed the logging point: consecutive messages are
\* log_every_iter batches apart and none is missing or extra. The message of
\* a batch is written when the output process of the batch before it has
\* exited and no output process of the batch itself has been started. With
\* no logger nothing is ever logged.
C17_LogsEveryLogEveryIter ==
    /\ (parallel /\ logger) =>
         /\ Len(RunLogs) = (IF LoggedThrough < 0 THEN 0
                            ELSE LoggedThrough \div log_every_iter + 1)
         /\ \A j \in 1..Len(RunLogs) : RunLogs[j] = (j - 1) * log_every_iter + 1
         /\ \A j \in 1..(Len(RunLogs) - 1) :
              RunLogs[j + 1] - RunLogs[j] = log_every_iter
    /\ (parallel /\ pc \in {"log", "launch"}) =>
         /\ p_init => (Exited(tasks[p]) /\ tasks[p].n = batch.n - 1)
         /\ \A t \in 1..Len(tasks) : tasks[t].n # batch.n
    /\ ~logger => logs = <<>>

C17_Witness ==
    /\ parallel
    /\ logger
    /\ log_every_iter = 2
    /\ RunLogs = <<1, 3>>

\* C18: in sequential mode no multiprocessing.Pool, no child process of
\* background_generator and no output process is ever created.
C18_SequentialSingleContext ==
    ~parallel =>
        /\ ~poolCreated
        /\ childPc = "unborn"
        /\ bgState = "absent"
        /\ tasks = <<>>

\* C19: in parallel mode the thread inside background_generator and its
\* child are never both waiting to receive with nothing in the pipe for
\* either of them; and under fair scheduling, for a non-empty source whose
\* transformations do not raise, a run() that has been entered leads to done
\* unless the output procedure raises.
C19_HandshakeReachesDone ==
    /\ [](~BothBlocked)
    /\ (parallel /\ source # <<>> /\ NonFailing /\ pc # "idle")
         ~> (done \/ outputRaised)

C19_Witness ==
    /\ parallel
    /\ source # <<>>
    /\ NonFailing
    /\ ~outputRaised
    /\ Len(received) >= 2
    /\ bgState = "finished"
    /\ childPc = "exited"
    /\ done

\* C20: in parallel mode, once a transformation has raised on a batch N >= 1
\* and the output procedure has not raised, the sink holds a prefix of the
\* results of batches 0..N-1 in order, and exactly those results when every
\* output process that was started has exited.
C20_EarlierOutputKept ==
    (parallel /\ xfFailed # {} /\ ~outputRaised /\ Len(SeqCalls) >= 1) =>
        /\ IsPrefix(sink, ResultsBeforeFailure)
        /\ (\A t \in 1..Len(tasks) : Exited(tasks[t])) =>
             sink = ResultsBeforeFailure

====
